---- MODULE Spec2Model ----
(***************************************************************************)
(* Model of the orchestrator service of ai-scrum-master-v2:                *)
(*   orchestrator_service/work_queue.py          WorkItem, WorkQueue       *)
(*   orchestrator_service/pr_review_tracker.py   PRReviewTracker           *)
(*   orchestrator_service/simple_worker_tracker.py  SimpleWorkerTracker    *)
(*   orchestrator_service/server.py              request handlers, poller  *)
(*                                                                         *)
(* Spec     : the WorkQueue object under any serialized sequence of calls  *)
(*            of its public methods (two issue numbers, two workers).      *)
(* SpecFifo : the same object with three issues of one repository.         *)
(* SpecApi  : the service: the FastAPI handlers and the polling task run   *)
(*            on one asyncio event loop, so a handler runs atomically      *)
(*            between two suspending awaits.  The poller feeds issue 1 of  *)
(*            two repositories; the clock does not advance.                *)
(* SpecPr   : the PRReviewTracker object under any sequence of calls of    *)
(*            its methods, for three issues, two repositories and every    *)
(*            configuration with a small max_pending_prs.                  *)
(* SpecGate : the service with a small max_pending_prs, two issues and     *)
(*            workers that report the items they hold.                     *)
(* SpecGateFair : SpecGate with weak fairness of the hand-out of work.     *)
(* SpecDeps : the PRReviewTracker with dependencies between issues and     *)
(*            every configuration, can_work_on_issue being asked.          *)
(* SpecLive : the service while the clock advances, with every liveness    *)
(*            timeout of 1..MaxTimeout minutes and the /health endpoint.   *)
(* SpecPoll : the polling task cycle by cycle (fetches that fail or        *)
(*            succeed per repository, the for loop between its awaits)     *)
(*            next to one worker that asks for work and reports.           *)
(* SpecQuery : SpecLive's service with one worker, a reviewer and the      *)
(*            read-only endpoints /health, /workers, /queue and            *)
(*            /pr-review/status.                                           *)
(* SpecDup  : SpecGate with workers that report only items assigned to     *)
(*            them, possibly more than once.                               *)
(* SpecClarify : the service with workers whose workflow ends in           *)
(*            needs_clarification.                                         *)
(* SpecStale : the service with workers that report any issue, whether     *)
(*            or not it is assigned to them.                               *)
(***************************************************************************)
EXTENDS Integers, Sequences, FiniteSets, TLC

\* ------------------------------------------------------------------ bounds
MaxRetryCount == 3
MaxTotalTasks == 2
MaxInflight == 1
MaxPendingPrs == 2
MaxTimeout == 2
MaxClock == 3

\* ------------------------------------------------------- program constants
MAX_RETRIES == 2
\* the service's defaults for MAX_PENDING_PRS and BLOCK_ON_CHANGES_REQUESTED
DEFAULT_MAX_PENDING_PRS == 5
DEFAULT_BLOCK_ON_CHANGES == TRUE
\* the service's default for ALLOW_PARALLEL_INDEPENDENT
DEFAULT_ALLOW_PARALLEL == TRUE
\* SimpleWorkerTracker(timeout_minutes=5); the clock counts minutes
DEFAULT_TIMEOUT_MINUTES == 5

\* ------------------------------------------------------------ input domains
\* Optional[str] that is None
None == "None"
\* Optional[int] / Optional[datetime] that is None
NoneInt == -1

Workers == {"w1", "w2"}
IssueNumbers == {1, 2}
\* the upstream issues that can be ingested: issue 1 of org/a (whose text is
\* edited from t1 to t2), issue 1 of org/b, issue 2 of org/a
Upstream == { [number |-> 1, repository |-> "org/a", title |-> "t1", body |-> "b1", labels |-> <<"ai-ready">>],
              [number |-> 1, repository |-> "org/a", title |-> "t2", body |-> "b2", labels |-> <<"ai-ready", "x">>],
              [number |-> 1, repository |-> "org/b", title |-> "t1", body |-> "b1", labels |-> <<"ai-ready">>],
              [number |-> 2, repository |-> "org/a", title |-> "t1", body |-> "b1", labels |-> <<"ai-ready">>] }
Errors == {"boom"}
PrUrls == {"pull/9"}

VARIABLES
    items,                  \* WorkQueue.items
    ret,                    \* the value returned by the last call / request
    clock,                  \* the wall clock read by datetime.now()
    pending_prs,            \* PRReviewTracker.pending_prs
    changes_requested_prs,  \* PRReviewTracker.changes_requested_prs
    approved_prs,           \* PRReviewTracker.approved_prs
    dependency_graph,       \* PRReviewTracker.dependency_graph
    max_pending_prs,        \* PRReviewTracker.max_pending_prs
    block_on_changes_requested, \* PRReviewTracker.block_on_changes_requested
    allow_parallel_independent, \* PRReviewTracker.allow_parallel_independent
    timeout,                \* SimpleWorkerTracker.timeout
    poll,                   \* poll_github_issues: the fetched issues not yet looked at
    fetch_failed,           \* history: the repositories whose fetch has failed in some cycle
    poll_seen,              \* history: what the poller's last step looked at, <<issue, status found>>
    handed,                 \* history: the <<worker, issue>> pairs /work/next has handed out
    workers,                \* SimpleWorkerTracker.workers
    inflight                \* mark_work_complete handlers suspended in their awaits

vars == <<items, ret, clock, pending_prs, changes_requested_prs,
          approved_prs, dependency_graph, max_pending_prs,
          block_on_changes_requested, allow_parallel_independent, timeout,
          poll, fetch_failed, poll_seen, handed, workers, inflight>>

\* the configuration the trackers are constructed with; no method assigns it
cfgVars == <<max_pending_prs, block_on_changes_requested,
             allow_parallel_independent, timeout>>
prVars == <<pending_prs, changes_requested_prs, approved_prs, dependency_graph, cfgVars>>
apiVars == <<workers, inflight, poll, fetch_failed, poll_seen, handed>>

\* ------------------------------------------------------------------ WorkItem
WorkItem(issue_number, title, body, labels, repository, branch_name) ==
    [ issue_number |-> issue_number,
      title        |-> title,
      body         |-> body,
      labels       |-> labels,
      repository   |-> repository,
      branch_name  |-> branch_name,
      status       |-> "pending",
      assigned_to  |-> None,
      assigned_at  |-> NoneInt,
      completed_at |-> NoneInt,
      pr_url       |-> None,
      error        |-> None,
      retry_count  |-> 0 ]

\* datetime.now()
now == clock

\* ------------------------------------------------- dict helpers (WorkQueue.items)
\* self.items is an insertion-ordered dict issue_number -> WorkItem; it is the
\* sequence of its values in insertion order, the key being issue_number.
Keys(its) == { its[i].issue_number : i \in DOMAIN its }

IndexOf(its, issue_number) ==
    CHOOSE i \in DOMAIN its : its[i].issue_number = issue_number

Get(its, issue_number) == its[IndexOf(its, issue_number)]

DelKey(its, issue_number) ==
    SelectSeq(its, LAMBDA it : it.issue_number # issue_number)

SetItem(its, issue_number, item) ==
    [its EXCEPT ![IndexOf(its, issue_number)] = item]

\* ------------------------------------------------------------------ WorkQueue
has_issue(its, issue_number) == issue_number \in Keys(its)

\* add_work_item: <<new items, return value>>
add_work_item(its, issue_number, title, body, labels, repository) ==
    IF issue_number \in Keys(its)
    THEN <<its, FALSE>>
    ELSE <<Append(its, WorkItem(issue_number, title, body, labels, repository,
                                "ai-feature/issue-" \o ToString(issue_number))),
           TRUE>>

PendingIdx(its) == { i \in DOMAIN its : its[i].status = "pending" }

\* the scan keeps the last pending item instead of stopping at the first
FirstPending_last(its) ==
    CHOOSE i \in PendingIdx(its) : \A j \in PendingIdx(its) : i >= j

FirstPending(its) ==
    CHOOSE i \in PendingIdx(its) : \A j \in PendingIdx(its) : i <= j

\* get_next_work whose scan also accepts an item that is already in progress
get_next_work_stale(its, worker_id) ==
    LET cand == { i \in DOMAIN its : its[i].status \in {"pending", "in_progress"} } IN
    IF cand = {}
    THEN <<its, NoneInt>>
    ELSE LET i == CHOOSE i \in cand : \A j \in cand : i <= j IN
         << [its EXCEPT ![i].status = "in_progress",
                        ![i].assigned_to = worker_id,
                        ![i].assigned_at = now],
            its[i].issue_number >>

\* get_next_work that forgets to stamp assigned_at
get_next_work_no_timestamp(its, worker_id) ==
    IF PendingIdx(its) = {}
    THEN <<its, NoneInt>>
    ELSE LET i == FirstPending(its) IN
         << [its EXCEPT ![i].status = "in_progress",
                        ![i].assigned_to = worker_id],
            its[i].issue_number >>

\* get_next_work that only looks at the first item of the dict
get_next_work_head_only(its, worker_id) ==
    IF its = << >> \/ its[1].status # "pending"
    THEN <<its, NoneInt>>
    ELSE << [its EXCEPT ![1].status = "in_progress",
                        ![1].assigned_to = worker_id,
                        ![1].assigned_at = now],
            its[1].issue_number >>

\* get_next_work that takes over the first in-progress item when nothing is pending
get_next_work_takeover(its, worker_id) ==
    LET held == { i \in DOMAIN its : its[i].status = "in_progress" } IN
    IF PendingIdx(its) # {}
    THEN LET i == FirstPending(its) IN
         << [its EXCEPT ![i].status = "in_progress",
                        ![i].assigned_to = worker_id,
                        ![i].assigned_at = now],
            its[i].issue_number >>
    ELSE IF held = {}
    THEN <<its, NoneInt>>
    ELSE LET i == CHOOSE x \in held : \A y \in held : x <= y IN
         << [its EXCEPT ![i].assigned_to = worker_id,
                        ![i].assigned_at = now],
            its[i].issue_number >>

\* get_next_work: <<new items, returned issue number or NoneInt>>
get_next_work(its, worker_id) ==
    IF PendingIdx(its) = {}
    THEN <<its, NoneInt>>
    ELSE LET i == FirstPending(its) IN
         << [its EXCEPT ![i].status = "in_progress",
                        ![i].assigned_to = worker_id,
                        ![i].assigned_at = now],
            its[i].issue_number >>

\* mark_complete without the ownership check
mark_complete_no_owner_check(its, issue_number, worker_id, success, pr_url, error) ==
    IF issue_number \notin Keys(its)
    THEN <<its, FALSE>>
    ELSE LET item == Get(its, issue_number) IN
         << SetItem(its, issue_number,
               [item EXCEPT !.status = IF success THEN "completed" ELSE "failed",
                            !.completed_at = now,
                            !.pr_url = pr_url,
                            !.error = error]),
            TRUE >>

\* mark_complete: <<new items, return value>>
mark_complete(its, issue_number, worker_id, success, pr_url, error) ==
    IF issue_number \notin Keys(its)
    THEN <<its, FALSE>>
    ELSE LET item == Get(its, issue_number) IN
         IF item.assigned_to # worker_id
         THEN <<its, FALSE>>
         ELSE << SetItem(its, issue_number,
                    [item EXCEPT !.status = IF success THEN "completed" ELSE "failed",
                                 !.completed_at = now,
                                 !.pr_url = pr_url,
                                 !.error = error]),
                 TRUE >>

\* mark_failed comparing with > instead of >=
mark_failed_off_by_one(its, issue_number, worker_id, error) ==
    IF issue_number \notin Keys(its)
    THEN <<its, FALSE>>
    ELSE LET item == Get(its, issue_number) IN
         IF item.assigned_to # worker_id
         THEN <<its, FALSE>>
         ELSE LET rc == item.retry_count + 1 IN
              IF rc > MAX_RETRIES
              THEN << SetItem(its, issue_number,
                         [item EXCEPT !.retry_count = rc,
                                      !.status = "failed",
                                      !.completed_at = now,
                                      !.error = "Max retries exceeded. Last error: " \o error]),
                      TRUE >>
              ELSE << SetItem(its, issue_number,
                         [item EXCEPT !.retry_count = rc,
                                      !.status = "pending",
                                      !.assigned_to = None,
                                      !.assigned_at = NoneInt,
                                      !.error = "Retry " \o ToString(rc) \o ": " \o error]),
                      TRUE >>

\* mark_failed that leaves the worker on the item it releases for a retry
mark_failed_keeps_owner(its, issue_number, worker_id, error) ==
    IF issue_number \notin Keys(its)
    THEN <<its, FALSE>>
    ELSE LET item == Get(its, issue_number) IN
         IF item.assigned_to # worker_id
         THEN <<its, FALSE>>
         ELSE LET rc == item.retry_count + 1 IN
              IF rc >= MAX_RETRIES
              THEN << SetItem(its, issue_number,
                         [item EXCEPT !.retry_count = rc,
                                      !.status = "failed",
                                      !.completed_at = now,
                                      !.error = "Max retries exceeded. Last error: " \o error]),
                      TRUE >>
              ELSE << SetItem(its, issue_number,
                         [item EXCEPT !.retry_count = rc,
                                      !.status = "pending",
                                      !.error = "Retry " \o ToString(rc) \o ": " \o error]),
                      TRUE >>

\* mark_failed: <<new items, return value>>
mark_failed(its, issue_number, worker_id, error) ==
    IF issue_number \notin Keys(its)
    THEN <<its, FALSE>>
    ELSE LET item == Get(its, issue_number) IN
         IF item.assigned_to # worker_id
         THEN <<its, FALSE>>
         ELSE LET rc == item.retry_count + 1 IN
              IF rc >= MAX_RETRIES
              THEN << SetItem(its, issue_number,
                         [item EXCEPT !.retry_count = rc,
                                      !.status = "failed",
                                      !.completed_at = now,
                                      !.error = "Max retries exceeded. Last error: " \o error]),
                      TRUE >>
              ELSE << SetItem(its, issue_number,
                         [item EXCEPT !.retry_count = rc,
                                      !.status = "pending",
                                      !.assigned_to = None,
                                      !.assigned_at = NoneInt,
                                      !.error = "Retry " \o ToString(rc) \o ": " \o error]),
                      TRUE >>

\* release_work that puts the item back to pending instead of deleting it
release_work_requeue(its, issue_number, worker_id) ==
    IF issue_number \notin Keys(its)
    THEN <<its, FALSE>>
    ELSE LET item == Get(its, issue_number) IN
         IF item.assigned_to # worker_id
         THEN <<its, FALSE>>
         ELSE << SetItem(its, issue_number,
                    [item EXCEPT !.status = "pending",
                                 !.assigned_to = None,
                                 !.assigned_at = NoneInt]),
                 TRUE >>

\* release_work: <<new items, return value>>
release_work(its, issue_number, worker_id) ==
    IF issue_number \notin Keys(its)
    THEN <<its, FALSE>>
    ELSE IF Get(its, issue_number).assigned_to # worker_id
         THEN <<its, FALSE>>
         ELSE <<DelKey(its, issue_number), TRUE>>

CountStatus(its, st) == Cardinality({ i \in DOMAIN its : its[i].status = st })
pending_count(its) == CountStatus(its, "pending")
in_progress_count(its) == CountStatus(its, "in_progress")
completed_count(its) == CountStatus(its, "completed")

\* --------------------------------------------------------------------- Init
\* startup_event: the objects as constructed, the tracker with the given
\* max_pending_prs and block_on_changes_requested
StartupWith(max_pending, block_on_changes, allow_parallel, timeout_minutes) ==
    /\ items = << >>
    /\ ret = [op |-> "init", val |-> FALSE]
    /\ clock = 0
    /\ pending_prs = << >>
    /\ changes_requested_prs = {}
    /\ approved_prs = {}
    /\ dependency_graph = << >>
    /\ max_pending_prs = max_pending
    /\ block_on_changes_requested = block_on_changes
    /\ allow_parallel_independent = allow_parallel
    /\ timeout = timeout_minutes
    /\ poll = << >>
    /\ fetch_failed = {}
    /\ poll_seen = {}
    /\ handed = {}
    /\ workers = << >>
    /\ inflight = {}

Startup(max_pending, block_on_changes) ==
    StartupWith(max_pending, block_on_changes, DEFAULT_ALLOW_PARALLEL,
                DEFAULT_TIMEOUT_MINUTES)

Init == Startup(DEFAULT_MAX_PENDING_PRS, DEFAULT_BLOCK_ON_CHANGES)

\* ------------------------------------- Spec: calls of the WorkQueue methods
\* A successful mark_failed increments retry_count without limit (the owner
\* of a failed item can fail it again); the model stops at MaxRetryCount.
RetryRoom(issue_number, worker_id) ==
    (has_issue(items, issue_number)
       /\ Get(items, issue_number).assigned_to = worker_id)
    => Get(items, issue_number).retry_count < MaxRetryCount

AddWorkItem(issue_number, p, repository) ==
    LET r == add_work_item(items, issue_number, p.title, p.body, p.labels, repository) IN
    /\ items' = r[1]
    /\ ret' = [op |-> "add_work_item", val |-> r[2]]
    /\ UNCHANGED <<clock, prVars, apiVars>>

GetNextWork(worker_id) ==
    LET r == get_next_work(items, worker_id) IN
    /\ items' = r[1]
    /\ ret' = [op |-> "get_next_work", val |-> r[2]]
    /\ UNCHANGED <<clock, prVars, apiVars>>

MarkComplete(issue_number, worker_id, success, pr_url, error) ==
    LET r == mark_complete(items, issue_number, worker_id, success, pr_url, error) IN
    /\ items' = r[1]
    /\ ret' = [op |-> "mark_complete", val |-> r[2]]
    /\ UNCHANGED <<clock, prVars, apiVars>>

MarkFailed(issue_number, worker_id, error) ==
    LET r == mark_failed(items, issue_number, worker_id, error) IN
    /\ RetryRoom(issue_number, worker_id)
    /\ items' = r[1]
    /\ ret' = [op |-> "mark_failed", val |-> r[2]]
    /\ UNCHANGED <<clock, prVars, apiVars>>

ReleaseWork(issue_number, worker_id) ==
    LET r == release_work(items, issue_number, worker_id) IN
    /\ items' = r[1]
    /\ ret' = [op |-> "release_work", val |-> r[2]]
    /\ UNCHANGED <<clock, prVars, apiVars>>

Next ==
    \/ \E u \in Upstream : AddWorkItem(u.number, u, u.repository)
    \/ \E w \in Workers : GetNextWork(w)
    \/ \E n \in IssueNumbers, w \in Workers, u \in PrUrls :
            MarkComplete(n, w, TRUE, u, None)
    \/ \E n \in IssueNumbers, w \in Workers, e \in Errors :
            MarkComplete(n, w, FALSE, None, e)
    \/ \E n \in IssueNumbers, w \in Workers, e \in Errors : MarkFailed(n, w, e)
    \/ \E n \in IssueNumbers, w \in Workers : ReleaseWork(n, w)

Spec == Init /\ [][Next]_vars

\* ------------------------------------------------ dict helpers (plain dicts)
DictSet(d, k, v) == [x \in (DOMAIN d) \cup {k} |-> IF x = k THEN v ELSE d[x]]
DictDel(d, k) == [x \in (DOMAIN d) \ {k} |-> d[x]]

\* Python truthiness of an Optional[int] / of a str
TruthyInt(n) == n # NoneInt /\ n # 0
TruthyStr(x) == x # None /\ x # ""

\* ------------------------------------------------------ SimpleWorkerTracker
TrackedWorker(worker_id, first_seen, last_seen) ==
    [ worker_id    |-> worker_id,
      first_seen   |-> first_seen,
      last_seen    |-> last_seen,
      current_task |-> NoneInt,
      total_tasks  |-> 0 ]

\* update_activity that leaves current_task alone when no task is given
update_activity_keeps_task(ws, worker_id, task_number) ==
    LET ws1 == IF worker_id \notin DOMAIN ws
               THEN DictSet(ws, worker_id, TrackedWorker(worker_id, now, now))
               ELSE ws
        w1 == [ws1[worker_id] EXCEPT !.last_seen = now]
        w2 == IF TruthyInt(task_number)
              THEN IF w1.current_task # task_number
                   THEN [w1 EXCEPT !.current_task = task_number,
                                   !.total_tasks = @ + 1]
                   ELSE w1
              ELSE w1
    IN DictSet(ws1, worker_id, w2)

update_activity(ws, worker_id, task_number) ==
    LET ws1 == IF worker_id \notin DOMAIN ws
               THEN DictSet(ws, worker_id, TrackedWorker(worker_id, now, now))
               ELSE ws
        w1 == [ws1[worker_id] EXCEPT !.last_seen = now]
        w2 == IF TruthyInt(task_number)
              THEN IF w1.current_task # task_number
                   THEN [w1 EXCEPT !.current_task = task_number,
                                   !.total_tasks = @ + 1]
                   ELSE w1
              ELSE [w1 EXCEPT !.current_task = NoneInt]
    IN DictSet(ws1, worker_id, w2)

\* get_active_workers without the timeout test
get_active_workers_all(ws) == ws

\* get_active_workers: the workers seen within the timeout
get_active_workers(ws) ==
    [ w \in { x \in DOMAIN ws : now - ws[x].last_seen < timeout } |-> ws[w] ]

get_worker_count(ws) == Cardinality(DOMAIN get_active_workers(ws))

get_available_worker_count(ws) ==
    LET active == get_active_workers(ws) IN
    Cardinality({ w \in DOMAIN active : active[w].current_task = NoneInt })

\* ---------------------------------------------------------- PRReviewTracker
PendingPR(issue_number, pr_url, repository, created_at, worker_id, dependencies) ==
    [ issue_number |-> issue_number,
      pr_url       |-> pr_url,
      repository   |-> repository,
      created_at   |-> created_at,
      worker_id    |-> worker_id,
      dependencies |-> dependencies ]

\* add_pending_pr that records no worker for the PR
add_pending_pr_no_worker(pend, depg, issue_number, pr_url, repository, worker_id, dependencies) ==
    << DictSet(pend, issue_number,
               PendingPR(issue_number, pr_url, repository, now, None, dependencies)),
       IF dependencies # {} THEN DictSet(depg, issue_number, dependencies) ELSE depg >>

\* add_pending_pr: <<new pending_prs, new dependency_graph>>
add_pending_pr(pend, depg, issue_number, pr_url, repository, worker_id, dependencies) ==
    << DictSet(pend, issue_number,
               PendingPR(issue_number, pr_url, repository, now, worker_id, dependencies)),
       IF dependencies # {} THEN DictSet(depg, issue_number, dependencies) ELSE depg >>

\* mark_approved: <<new pending_prs, new approved_prs>>
mark_approved(pend, appr, issue_number) ==
    IF issue_number \in DOMAIN pend
    THEN <<DictDel(pend, issue_number), appr \cup {issue_number}>>
    ELSE <<pend, appr>>

\* mark_changes_requested that classifies the issue whether or not it is pending
mark_changes_requested_any(pend, chg, issue_number) ==
    <<DictDel(pend, issue_number), chg \cup {issue_number}>>

\* mark_changes_requested: <<new pending_prs, new changes_requested_prs>>
mark_changes_requested(pend, chg, issue_number) ==
    IF issue_number \in DOMAIN pend
    THEN <<DictDel(pend, issue_number), chg \cup {issue_number}>>
    ELSE <<pend, chg>>

\* mark_merged that leaves the issue in the dependency graph
mark_merged_keeps_graph(pend, appr, chg, depg, issue_number) ==
    << DictDel(pend, issue_number), appr \ {issue_number},
       chg \ {issue_number}, depg >>

\* mark_merged that leaves the PR in pending_prs
mark_merged_keeps_pending(pend, appr, chg, depg, issue_number) ==
    << pend, appr \ {issue_number}, chg \ {issue_number}, DictDel(depg, issue_number) >>

\* mark_merged that forgets to discard the issue from changes_requested_prs
mark_merged_keeps_changes(pend, appr, chg, depg, issue_number) ==
    << DictDel(pend, issue_number), appr \ {issue_number},
       chg, DictDel(depg, issue_number) >>

\* mark_merged: <<pending_prs, approved_prs, changes_requested_prs, dependency_graph>>
mark_merged(pend, appr, chg, depg, issue_number) ==
    << DictDel(pend, issue_number), appr \ {issue_number},
       chg \ {issue_number}, DictDel(depg, issue_number) >>

\* should_block_queue that counts every pending PR whatever the repository
should_block_queue_global_only(pend, chg, repository) ==
    IF block_on_changes_requested /\ chg # {}
    THEN TRUE
    ELSE Cardinality(DOMAIN pend) >= max_pending_prs

\* should_block_queue comparing with > instead of >=
should_block_queue_gt(pend, chg, repository) ==
    IF block_on_changes_requested /\ chg # {}
    THEN TRUE
    ELSE IF TruthyStr(repository)
         THEN Cardinality({ n \in DOMAIN pend : pend[n].repository = repository })
                > max_pending_prs
         ELSE Cardinality(DOMAIN pend) > max_pending_prs

should_block_queue(pend, chg, repository) ==
    IF block_on_changes_requested /\ chg # {}
    THEN TRUE
    ELSE IF TruthyStr(repository)
         THEN Cardinality({ n \in DOMAIN pend : pend[n].repository = repository })
                >= max_pending_prs
         ELSE Cardinality(DOMAIN pend) >= max_pending_prs

\* can_work_on_issue that lets the dependencies decide also when parallel
\* independent work is not allowed
can_work_on_issue_always_parallel(pend, chg, issue_number, dependencies) ==
    IF should_block_queue(pend, chg, None)
    THEN FALSE
    ELSE \A dep \in dependencies : ~(dep \in DOMAIN pend \/ dep \in chg)

can_work_on_issue(pend, chg, issue_number, dependencies) ==
    IF should_block_queue(pend, chg, None)
    THEN FALSE
    ELSE IF allow_parallel_independent
         THEN \A dep \in dependencies : ~(dep \in DOMAIN pend \/ dep \in chg)
         ELSE Cardinality(DOMAIN pend) = 0

\* get_blocking_reason: None, or the message as <<text, the issues it lists>>
get_blocking_reason(pend, chg, repository) ==
    IF chg # {}
    THEN <<"Changes requested on PRs", chg>>
    ELSE IF TruthyStr(repository)
         THEN LET repo_pending == { n \in DOMAIN pend : pend[n].repository = repository } IN
              IF Cardinality(repo_pending) >= max_pending_prs
              THEN <<"Too many pending PRs for " \o repository, repo_pending>>
              ELSE <<None, {}>>
         ELSE IF Cardinality(DOMAIN pend) >= max_pending_prs
              THEN <<"Too many pending PRs", DOMAIN pend>>
              ELSE <<None, {}>>

\* --------------------------------------------- SpecApi: the request handlers
\* GET /work/next that dequeues first and looks at the backpressure afterwards
RequestWork_dequeue_first(worker_id) ==
    LET ws1 == update_activity(workers, worker_id, NoneInt)
        r == get_next_work(items, worker_id)
    IN
    /\ items' = r[1]
    /\ IF should_block_queue(pending_prs, changes_requested_prs, None)
       THEN /\ workers' = ws1
            /\ ret' = [op |-> "/work/next", work_available |-> FALSE, blocked |-> TRUE,
                       reason |-> get_blocking_reason(pending_prs, changes_requested_prs, None)]
       ELSE IF r[2] = NoneInt
            THEN /\ workers' = ws1
                 /\ ret' = [op |-> "/work/next", work_available |-> FALSE,
                            blocked |-> FALSE]
            ELSE /\ workers' = update_activity(ws1, worker_id, r[2])
                 /\ ret' = [op |-> "/work/next", work_available |-> TRUE,
                            issue_number |-> r[2],
                            repository |-> Get(items, r[2]).repository]
    /\ workers'[worker_id].total_tasks <= MaxTotalTasks
    /\ handed' = IF r[2] # NoneInt
                 THEN handed \cup {<<worker_id, r[2]>>} ELSE handed
    /\ UNCHANGED <<clock, prVars, inflight, poll, fetch_failed, poll_seen>>

\* GET /work/next
RequestWork(worker_id) ==
    LET ws1 == update_activity(workers, worker_id, NoneInt) IN
    /\ IF should_block_queue(pending_prs, changes_requested_prs, None)
       THEN /\ workers' = ws1
            /\ items' = items
            /\ ret' = [op |-> "/work/next", work_available |-> FALSE, blocked |-> TRUE,
                       reason |-> get_blocking_reason(pending_prs, changes_requested_prs, None)]
       ELSE LET r == get_next_work(items, worker_id) IN
            /\ items' = r[1]
            /\ IF r[2] = NoneInt
               THEN /\ workers' = ws1
                    /\ ret' = [op |-> "/work/next", work_available |-> FALSE,
                               blocked |-> FALSE]
               ELSE /\ workers' = update_activity(ws1, worker_id, r[2])
                    /\ ret' = [op |-> "/work/next", work_available |-> TRUE,
                               issue_number |-> r[2],
                               repository |-> Get(items, r[2]).repository]
    /\ workers'[worker_id].total_tasks <= MaxTotalTasks
    /\ handed' = IF items' # items
                 THEN handed \cup {<<worker_id, ret'.issue_number>>} ELSE handed
    /\ UNCHANGED <<clock, prVars, inflight, poll, fetch_failed, poll_seen>>

\* POST /work/complete, up to its first suspending await (the GitHub calls)
ReportComplete(worker_id, issue_number, pr_url, success, error) ==
    LET repo == IF has_issue(items, issue_number)
                THEN Get(items, issue_number).repository ELSE None
        r == mark_complete(items, issue_number, worker_id, success,
                           IF success THEN pr_url ELSE None, error)
        h == [issue_number |-> issue_number, pr_url |-> pr_url,
              repository |-> repo, worker_id |-> worker_id]
    IN
    /\ items' = r[1]
    /\ IF success /\ TruthyStr(repo)
       THEN /\ h \notin inflight
            /\ Cardinality(inflight) < MaxInflight
            /\ inflight' = inflight \cup {h}
            /\ ret' = ret
       ELSE /\ inflight' = inflight
            /\ ret' = [op |-> "/work/complete", status |-> "acknowledged"]
    /\ UNCHANGED <<clock, prVars, workers, poll, fetch_failed, poll_seen, handed>>

\* POST /work/complete, after the GitHub calls: register the PR and answer
FinishComplete(h) ==
    LET r == add_pending_pr(pending_prs, dependency_graph, h.issue_number, h.pr_url,
                            h.repository, h.worker_id, {}) IN
    /\ h \in inflight
    /\ inflight' = inflight \ {h}
    /\ pending_prs' = r[1]
    /\ dependency_graph' = r[2]
    /\ ret' = [op |-> "/work/complete", status |-> "acknowledged"]
    /\ UNCHANGED <<items, clock, changes_requested_prs, approved_prs, cfgVars,
                   workers, poll, fetch_failed, poll_seen, handed>>

\* POST /work/failed
ReportFailed(worker_id, issue_number, error) ==
    LET r == mark_failed(items, issue_number, worker_id, error) IN
    /\ RetryRoom(issue_number, worker_id)
    /\ items' = r[1]
    /\ ret' = [op |-> "/work/failed", status |-> "acknowledged"]
    /\ UNCHANGED <<clock, prVars, apiVars>>

\* POST /pr-review/approved/{issue_number}
PrApproved(issue_number) ==
    LET r == mark_approved(pending_prs, approved_prs, issue_number) IN
    /\ pending_prs' = r[1]
    /\ approved_prs' = r[2]
    /\ ret' = [op |-> "/pr-review/approved", status |-> "acknowledged"]
    /\ UNCHANGED <<items, clock, changes_requested_prs, dependency_graph, cfgVars, apiVars>>

\* POST /pr-review/changes-requested/{issue_number}
PrChangesRequested(issue_number) ==
    LET r == mark_changes_requested(pending_prs, changes_requested_prs, issue_number) IN
    /\ pending_prs' = r[1]
    /\ changes_requested_prs' = r[2]
    /\ ret' = [op |-> "/pr-review/changes-requested", status |-> "acknowledged"]
    /\ UNCHANGED <<items, clock, approved_prs, dependency_graph, cfgVars, apiVars>>

\* POST /pr-review/merged/{issue_number}
PrMerged(issue_number) ==
    LET r == mark_merged(pending_prs, approved_prs, changes_requested_prs,
                         dependency_graph, issue_number) IN
    /\ pending_prs' = r[1]
    /\ approved_prs' = r[2]
    /\ changes_requested_prs' = r[3]
    /\ dependency_graph' = r[4]
    /\ ret' = [op |-> "/pr-review/merged", status |-> "acknowledged"]
    /\ UNCHANGED <<items, clock, cfgVars, apiVars>>

\* ------------------------------------------- SpecApi: poll_github_issues
\* the issues the poller can fetch while the service runs: issue 1 of org/a
\* and issue 1 of org/b
UpstreamApi == { u \in Upstream : u.number = 1 /\ u.title = "t1" }

\* the loop body for one fetched issue, up to the await of the relabel
PollIssue(issue) ==
    /\ IF has_issue(items, issue.number)
       THEN items' = items
       ELSE items' = add_work_item(items, issue.number, issue.title, issue.body,
                                   issue.labels, issue.repository)[1]
    /\ UNCHANGED <<ret, clock, prVars, apiVars>>

NextApi ==
    \/ \E w \in Workers : RequestWork(w)
    \/ \E w \in Workers, n \in IssueNumbers, u \in PrUrls :
            ReportComplete(w, n, u, TRUE, None)
    \/ \E w \in Workers, n \in IssueNumbers, u \in PrUrls, e \in Errors :
            ReportComplete(w, n, u, FALSE, e)
    \/ \E h \in inflight : FinishComplete(h)
    \/ \E w \in Workers, n \in IssueNumbers, e \in Errors : ReportFailed(w, n, e)
    \/ \E n \in IssueNumbers : PrApproved(n)
    \/ \E n \in IssueNumbers : PrChangesRequested(n)
    \/ \E n \in IssueNumbers : PrMerged(n)
    \/ \E u \in UpstreamApi : PollIssue(u)

SpecApi == Init /\ [][NextApi]_vars

\* ------------------------- SpecFifo: the queue with three issues A, B, C
UpstreamFifo ==
    { [number |-> n, repository |-> "org/a", title |-> "t1", body |-> "b1",
       labels |-> <<"ai-ready">>] : n \in 1..3 }

NextFifo ==
    \/ \E u \in UpstreamFifo : AddWorkItem(u.number, u, u.repository)
    \/ \E w \in Workers : GetNextWork(w)
    \/ \E n \in 1..3, w \in Workers, e \in Errors : MarkFailed(n, w, e)
    \/ \E n \in 1..3, w \in Workers : ReleaseWork(n, w)

SpecFifo == Init /\ [][NextFifo]_vars

\* ------------------- SpecPr: calls of the PRReviewTracker methods
\* the tracker is constructed with max_pending_prs in 1..MaxPendingPrs and
\* either value of block_on_changes_requested
PrIssues == 1..3
Repositories == {"org/a", "org/b"}

InitPr ==
    \E mp \in 1..MaxPendingPrs, blk \in BOOLEAN : Startup(mp, blk)

AddPendingPr(issue_number, pr_url, repository, worker_id, dependencies) ==
    LET r == add_pending_pr(pending_prs, dependency_graph, issue_number, pr_url,
                            repository, worker_id, dependencies) IN
    /\ pending_prs' = r[1]
    /\ dependency_graph' = r[2]
    /\ ret' = [op |-> "add_pending_pr", val |-> issue_number]
    /\ UNCHANGED <<items, clock, changes_requested_prs, approved_prs, cfgVars, apiVars>>

MarkApproved(issue_number) ==
    LET r == mark_approved(pending_prs, approved_prs, issue_number) IN
    /\ pending_prs' = r[1]
    /\ approved_prs' = r[2]
    /\ ret' = [op |-> "mark_approved", val |-> issue_number]
    /\ UNCHANGED <<items, clock, changes_requested_prs, dependency_graph, cfgVars, apiVars>>

MarkChangesRequested(issue_number) ==
    LET r == mark_changes_requested(pending_prs, changes_requested_prs, issue_number) IN
    /\ pending_prs' = r[1]
    /\ changes_requested_prs' = r[2]
    /\ ret' = [op |-> "mark_changes_requested", val |-> issue_number]
    /\ UNCHANGED <<items, clock, approved_prs, dependency_graph, cfgVars, apiVars>>

MarkMerged(issue_number) ==
    LET r == mark_merged(pending_prs, approved_prs, changes_requested_prs,
                         dependency_graph, issue_number) IN
    /\ pending_prs' = r[1]
    /\ approved_prs' = r[2]
    /\ changes_requested_prs' = r[3]
    /\ dependency_graph' = r[4]
    /\ ret' = [op |-> "mark_merged", val |-> issue_number]
    /\ UNCHANGED <<items, clock, cfgVars, apiVars>>

NextPr ==
    \/ \E n \in PrIssues, u \in PrUrls, repo \in Repositories, w \in Workers :
            AddPendingPr(n, u, repo, w, {})
    \/ \E n \in PrIssues : MarkApproved(n)
    \/ \E n \in PrIssues : MarkChangesRequested(n)
    \/ \E n \in PrIssues : MarkMerged(n)

SpecPr == InitPr /\ [][NextPr]_vars

\* ------- SpecGate: the service with a low max_pending_prs and two issues
\* the tracker is configured with max_pending_prs in 1..MaxPendingPrs and
\* either value of block_on_changes_requested; the
\* poller feeds issues 1 and 2 of org/a; the workers are DistributedWorker
\* processes, which report an item once, after it was handed to them, here
\* always with success
UpstreamGate == { u \in Upstream : u.repository = "org/a" /\ u.title = "t1" }

\* DistributedWorker.run: the worker reports the item it received and works on
Holds(worker_id, issue_number) ==
    /\ has_issue(items, issue_number)
    /\ Get(items, issue_number).status = "in_progress"
    /\ Get(items, issue_number).assigned_to = worker_id

InitGate ==
    \E mp \in 1..MaxPendingPrs, blk \in BOOLEAN : Startup(mp, blk)

NextGate ==
    \/ \E w \in Workers : RequestWork(w)
    \/ \E w \in Workers, n \in IssueNumbers, u \in PrUrls :
            Holds(w, n) /\ ReportComplete(w, n, u, TRUE, None)
    \/ \E h \in inflight : FinishComplete(h)
    \/ \E n \in IssueNumbers : PrApproved(n)
    \/ \E n \in IssueNumbers : PrChangesRequested(n)
    \/ \E n \in IssueNumbers : PrMerged(n)
    \/ \E u \in UpstreamGate : PollIssue(u)

SpecGate == InitGate /\ [][NextGate]_vars

\* a /work/next request that hands out an item
HandOut == \E w \in Workers : RequestWork(w) /\ items' # items

\* DistributedWorker.run asks for work again and again: while the queue stays
\* open with a pending item, one of the requests arrives and is served
SpecGateFair == SpecGate /\ WF_vars(HandOut)

\* ------- SpecDeps: the PRReviewTracker with dependencies, any configuration
\* two issues of one repository; a PR is registered with no dependency or with
\* a dependency on issue 1; can_work_on_issue is asked for any dependency set
DepIssues == {1, 2}
DepSets == {{}, {1}}

InitDeps ==
    \E mp \in 1..MaxPendingPrs, blk \in BOOLEAN, allow \in BOOLEAN :
        StartupWith(mp, blk, allow, DEFAULT_TIMEOUT_MINUTES)

CanWorkOnIssue(issue_number, dependencies) ==
    /\ ret' = [op |-> "can_work_on_issue",
               val |-> can_work_on_issue(pending_prs, changes_requested_prs,
                                         issue_number, dependencies)]
    /\ UNCHANGED <<items, clock, prVars, apiVars>>

NextDeps ==
    \/ \E n \in DepIssues, u \in PrUrls, deps \in DepSets :
            AddPendingPr(n, u, "org/a", "w1", deps)
    \/ \E n \in DepIssues : MarkApproved(n)
    \/ \E n \in DepIssues : MarkChangesRequested(n)
    \/ \E n \in DepIssues : MarkMerged(n)
    \/ \E n \in DepIssues, deps \in SUBSET DepIssues : CanWorkOnIssue(n, deps)

SpecDeps == InitDeps /\ [][NextDeps]_vars

\* ------- SpecLive: the service while time passes
\* the liveness tracker is constructed with a timeout of 1..MaxTimeout
\* minutes; the clock advances minute by minute up to MaxClock; the poller
\* feeds issue 1 of org/a; the workers report failures only, so that no PR is
\* ever registered
UpstreamLive == { u \in UpstreamApi : u.repository = "org/a" }

InitLive ==
    \E tmo \in 1..MaxTimeout :
        StartupWith(DEFAULT_MAX_PENDING_PRS, DEFAULT_BLOCK_ON_CHANGES,
                    DEFAULT_ALLOW_PARALLEL, tmo)

\* a minute passes
Tick ==
    /\ clock < MaxClock
    /\ clock' = clock + 1
    /\ UNCHANGED <<items, ret, prVars, apiVars>>

\* GET /health that also drops the workers that are no longer active
Health_cleanup ==
    /\ ret' = [op |-> "/health", status |-> "healthy",
               total |-> get_worker_count(workers),
               available |-> get_available_worker_count(workers),
               pending |-> pending_count(items),
               in_progress |-> in_progress_count(items),
               completed |-> completed_count(items),
               pending_prs |-> Cardinality(DOMAIN pending_prs),
               queue_blocked |-> should_block_queue(pending_prs, changes_requested_prs, None)]
    /\ workers' = get_active_workers(workers)
    /\ UNCHANGED <<items, clock, prVars, inflight, poll, fetch_failed, poll_seen, handed>>

\* GET /health
Health ==
    /\ ret' = [op |-> "/health", status |-> "healthy",
               total |-> get_worker_count(workers),
               available |-> get_available_worker_count(workers),
               pending |-> pending_count(items),
               in_progress |-> in_progress_count(items),
               completed |-> completed_count(items),
               pending_prs |-> Cardinality(DOMAIN pending_prs),
               queue_blocked |-> should_block_queue(pending_prs, changes_requested_prs, None)]
    /\ UNCHANGED <<items, clock, prVars, apiVars>>

NextLive ==
    \/ Tick
    \/ Health
    \/ \E w \in Workers : RequestWork(w)
    \/ \E w \in Workers, u \in PrUrls, e \in Errors :
            ReportComplete(w, 1, u, FALSE, e)
    \/ \E w \in Workers, e \in Errors : ReportFailed(w, 1, e)
    \/ PrApproved(1)
    \/ PrChangesRequested(1)
    \/ PrMerged(1)
    \/ \E u \in UpstreamLive : PollIssue(u)

SpecLive == InitLive /\ [][NextLive]_vars

\* one DistributedWorker asks for work and reports on the item it holds
PollWorkers == {"w1"}

\* ------- SpecQuery: the service with its read-only endpoints
\* WorkQueue.get_pending_items
get_pending_items(its) ==
    LET sel == SelectSeq(its, LAMBDA it : it.status = "pending") IN
    [ i \in DOMAIN sel |-> [issue_number |-> sel[i].issue_number,
                            title |-> sel[i].title,
                            labels |-> sel[i].labels] ]

\* WorkQueue.get_in_progress_items
get_in_progress_items(its) ==
    LET sel == SelectSeq(its, LAMBDA it : it.status = "in_progress") IN
    [ i \in DOMAIN sel |-> [issue_number |-> sel[i].issue_number,
                            title |-> sel[i].title,
                            assigned_to |-> sel[i].assigned_to,
                            assigned_at |-> sel[i].assigned_at] ]

\* list.sort(key=completed_at or datetime.min, reverse=True): a stable sort,
\* items with equal keys keep their order; the item at i goes to the place
\* after the items that come before it
SortedByCompletion(sel) ==
    LET before(i) == { j \in DOMAIN sel :
                          \/ sel[j].completed_at > sel[i].completed_at
                          \/ sel[j].completed_at = sel[i].completed_at /\ j < i }
    IN [ k \in DOMAIN sel |->
           sel[CHOOSE i \in DOMAIN sel : Cardinality(before(i)) = k - 1] ]

\* WorkQueue.get_completed_items(limit)
get_completed_items(its, limit) ==
    LET sel == SelectSeq(its, LAMBDA it : it.status \in {"completed", "failed"})
        srt == SortedByCompletion(sel)
        top == SubSeq(srt, 1, IF Len(srt) < limit THEN Len(srt) ELSE limit)
    IN [ i \in DOMAIN top |-> [issue_number |-> top[i].issue_number,
                               title |-> top[i].title,
                               status |-> top[i].status,
                               assigned_to |-> top[i].assigned_to,
                               pr_url |-> top[i].pr_url,
                               error |-> top[i].error,
                               completed_at |-> top[i].completed_at] ]

\* PRReviewTracker.get_status
get_status ==
    [ pending_prs |-> Cardinality(DOMAIN pending_prs),
      changes_requested |-> Cardinality(changes_requested_prs),
      approved |-> Cardinality(approved_prs),
      queue_blocked |-> should_block_queue(pending_prs, changes_requested_prs, None),
      blocking_reason |-> get_blocking_reason(pending_prs, changes_requested_prs, None),
      config |-> [max_pending_prs |-> max_pending_prs,
                  block_on_changes_requested |-> block_on_changes_requested,
                  allow_parallel_independent |-> allow_parallel_independent] ]

\* PRReviewTracker.get_pending_pr_details (age_seconds in minutes of the clock)
get_pending_pr_details ==
    { [issue_number |-> pending_prs[n].issue_number,
       pr_url |-> pending_prs[n].pr_url,
       repository |-> pending_prs[n].repository,
       created_at |-> pending_prs[n].created_at,
       worker_id |-> pending_prs[n].worker_id,
       dependencies |-> pending_prs[n].dependencies,
       age_seconds |-> now - pending_prs[n].created_at] : n \in DOMAIN pending_prs }

\* GET /workers
ListWorkers ==
    LET active == get_active_workers(workers) IN
    /\ ret' = [op |-> "/workers",
               workers |-> { [id |-> w,
                              status |-> IF TruthyInt(active[w].current_task)
                                         THEN "busy" ELSE "available",
                              current_task |-> active[w].current_task,
                              last_seen |-> active[w].last_seen,
                              first_seen |-> active[w].first_seen,
                              total_tasks |-> active[w].total_tasks] : w \in DOMAIN active }]
    /\ UNCHANGED <<items, clock, prVars, apiVars>>

\* GET /queue
QueueStatus ==
    /\ ret' = [op |-> "/queue",
               pending |-> get_pending_items(items),
               in_progress |-> get_in_progress_items(items),
               completed |-> get_completed_items(items, 10)]
    /\ UNCHANGED <<items, clock, prVars, apiVars>>

\* GET /pr-review/status
PrReviewStatus ==
    /\ ret' = [op |-> "/pr-review/status", status |-> get_status,
               pending_pr_details |-> get_pending_pr_details]
    /\ UNCHANGED <<items, clock, prVars, apiVars>>

\* one worker works on the issues 1 and 2 of org/a, a reviewer asks for changes
\* on issue 1, the clock advances and the read-only endpoints are asked
NextQuery ==
    \/ Tick
    \/ Health
    \/ ListWorkers
    \/ QueueStatus
    \/ PrReviewStatus
    \/ \E w \in PollWorkers : RequestWork(w)
    \/ \E w \in PollWorkers, n \in IssueNumbers, u \in PrUrls :
            Holds(w, n) /\ ReportComplete(w, n, u, TRUE, None)
    \/ \E h \in inflight : FinishComplete(h)
    \/ \E w \in PollWorkers, n \in IssueNumbers, e \in Errors :
            Holds(w, n) /\ ReportFailed(w, n, e)
    \/ PrChangesRequested(1)
    \/ \E u \in UpstreamGate : PollIssue(u)

SpecQuery == InitLive /\ [][NextQuery]_vars

\* ------- SpecPoll: the polling task, cycle by cycle, next to the handlers
\* the clients dict of the MultiRepoManager, in insertion order
RepoOrder == <<"org/a", "org/b">>

IssueA1 == [number |-> 1, title |-> "t1", body |-> "b1", labels |-> <<"ai-ready">>]
IssueA1Later == [number |-> 1, title |-> "t2", body |-> "b2", labels |-> <<"ai-ready", "x">>]
IssueA2 == [number |-> 2, title |-> "t1", body |-> "b1", labels |-> <<"ai-ready">>]
IssueB1 == [number |-> 1, title |-> "t1", body |-> "b1", labels |-> <<"ai-ready">>]

\* what a fetch of one repository can come to: it fails (GitHubClient.fetch_issues
\* logs the error and answers no issue, and fetch_all_issues skips a client
\* that raises), or it returns the open issues that carry the trigger label at
\* that moment (issue 1 of org/a possibly edited and still labelled)
FetchAnswers(repo) ==
    IF repo = "org/a"
    THEN { [ok |-> FALSE, issues |-> << >>],
           [ok |-> TRUE, issues |-> <<IssueA1>>],
           [ok |-> TRUE, issues |-> <<IssueA1Later, IssueA2>>] }
    ELSE { [ok |-> FALSE, issues |-> << >>],
           [ok |-> TRUE, issues |-> <<IssueB1>>] }

FetchInputs == { f \in [Repositories -> UNION { FetchAnswers(r) : r \in Repositories }] :
                    \A r \in Repositories : f[r] \in FetchAnswers(r) }

\* MultiRepoManager.fetch_all_issues: the issues of every repository whose
\* fetch did not raise, each tagged with its repository, in clients order
fetch_all_issues(answers) ==
    LET part(repo) ==
          IF answers[repo].ok
          THEN [ j \in DOMAIN answers[repo].issues |->
                   [number |-> answers[repo].issues[j].number,
                    title |-> answers[repo].issues[j].title,
                    body |-> answers[repo].issues[j].body,
                    labels |-> answers[repo].issues[j].labels,
                    repository |-> repo] ]
          ELSE << >>
    IN part(RepoOrder[1]) \o part(RepoOrder[2])

\* the fetched issues the for loop adds: those whose number is not a key
Untracked(its, q) == { j \in DOMAIN q : ~has_issue(its, q[j].number) }

\* the for loop that adds every fetched issue without looking at the queue,
\* replacing the item that is there
poll_github_issues_no_check(its, q) ==
    IF q = << >>
    THEN <<its, << >>, 0>>
    ELSE LET fresh == WorkItem(q[1].number, q[1].title, q[1].body, q[1].labels,
                               q[1].repository,
                               "ai-feature/issue-" \o ToString(q[1].number)) IN
         << IF has_issue(its, q[1].number)
            THEN SetItem(its, q[1].number, fresh)
            ELSE Append(its, fresh),
            Tail(q), 1 >>

\* poll_github_issues, the for loop from the issue at hand up to the await of
\* the relabel that follows an addition, or to the end of the list:
\* <<new items, issues left, number of issues looked at>>
poll_github_issues(its, q) ==
    IF Untracked(its, q) = {}
    THEN <<its, << >>, Len(q)>>
    ELSE LET j == CHOOSE x \in Untracked(its, q) : \A y \in Untracked(its, q) : x <= y IN
         << add_work_item(its, q[j].number, q[j].title, q[j].body, q[j].labels,
                          q[j].repository)[1],
            SubSeq(q, j + 1, Len(q)), j >>

\* what the loop found for the issues it looked at
Seen(its, q, k) ==
    { << q[j], IF has_issue(its, q[j].number)
               THEN Get(its, q[j].number).status ELSE "untracked" >> : j \in 1..k }

\* a poll cycle starts: the fetches return, and the loop runs up to its first
\* addition
PollFetch(answers) ==
    LET q == fetch_all_issues(answers)
        r == poll_github_issues(items, q)
    IN
    /\ poll = << >>
    /\ items' = r[1]
    /\ poll' = r[2]
    /\ poll_seen' = Seen(items, q, r[3])
    /\ fetch_failed' = fetch_failed \cup { repo \in Repositories : ~answers[repo].ok }
    /\ UNCHANGED <<ret, clock, prVars, workers, inflight, handed>>

\* the loop resumes after the relabel (add_issue_label returned label_ok,
\* which the loop does not look at)
PollStep(label_ok) ==
    LET r == poll_github_issues(items, poll) IN
    /\ poll # << >>
    /\ items' = r[1]
    /\ poll' = r[2]
    /\ poll_seen' = Seen(items, poll, r[3])
    /\ UNCHANGED <<ret, clock, prVars, workers, inflight, fetch_failed, handed>>

NextPoll ==
    \/ \E answers \in FetchInputs : PollFetch(answers)
    \/ \E label_ok \in BOOLEAN : PollStep(label_ok)
    \/ \E w \in PollWorkers : RequestWork(w)
    \/ \E w \in PollWorkers, n \in IssueNumbers, u \in PrUrls :
            Holds(w, n) /\ ReportComplete(w, n, u, TRUE, None)
    \/ \E h \in inflight : FinishComplete(h)
    \/ \E w \in PollWorkers, n \in IssueNumbers, e \in Errors :
            Holds(w, n) /\ ReportFailed(w, n, e)

SpecPoll == Init /\ [][NextPoll]_vars

\* ------- SpecDup: SpecGate with workers that repeat their completion report
\* the item is the worker's own: it was handed to it and it holds it or has
\* completed it
Owns(worker_id, issue_number) ==
    /\ has_issue(items, issue_number)
    /\ Get(items, issue_number).assigned_to = worker_id
    /\ Get(items, issue_number).status \in {"in_progress", "completed"}

NextDup ==
    \/ \E w \in Workers : RequestWork(w)
    \/ \E w \in Workers, n \in IssueNumbers, u \in PrUrls :
            Owns(w, n) /\ ReportComplete(w, n, u, TRUE, None)
    \/ \E h \in inflight : FinishComplete(h)
    \/ \E n \in IssueNumbers : PrApproved(n)
    \/ \E n \in IssueNumbers : PrChangesRequested(n)
    \/ \E n \in IssueNumbers : PrMerged(n)
    \/ \E u \in UpstreamGate : PollIssue(u)

SpecDup == InitGate /\ [][NextDup]_vars

\* ------- SpecClarify: the DistributedWorker's clarification path
\* str(e) of the AttributeError raised by self.client.release_work(...):
\* OrchestratorClient defines no release_work
NoReleaseWork == "'OrchestratorClient' object has no attribute 'release_work'"

\* DistributedWorker.run, needs_clarification branch: the call of
\* client.release_work raises, the except branch reports the failure
Clarify(worker_id, issue_number) ==
    /\ Holds(worker_id, issue_number)
    /\ ReportFailed(worker_id, issue_number, NoReleaseWork)

NextClarify ==
    \/ \E w \in Workers : RequestWork(w)
    \/ \E w \in Workers, n \in IssueNumbers : Clarify(w, n)
    \/ \E w \in Workers, n \in IssueNumbers, u \in PrUrls :
            Holds(w, n) /\ ReportComplete(w, n, u, TRUE, None)
    \/ \E h \in inflight : FinishComplete(h)
    \/ \E w \in Workers, n \in IssueNumbers, e \in Errors :
            Holds(w, n) /\ ReportFailed(w, n, e)
    \/ \E u \in UpstreamGate : PollIssue(u)

SpecClarify == Init /\ [][NextClarify]_vars

\* ------- SpecStale: completion reports of workers that do not hold the item
\* any worker reports success for any issue; nothing else than a hand-out
\* changes who an item is assigned to
NextStale ==
    \/ \E w \in Workers : RequestWork(w)
    \/ \E w \in Workers, n \in IssueNumbers, u \in PrUrls :
            ReportComplete(w, n, u, TRUE, None)
    \/ \E h \in inflight : FinishComplete(h)
    \/ \E u \in UpstreamGate : PollIssue(u)

SpecStale == Init /\ [][NextStale]_vars

\* ============================================================ properties
HasKey(its, repository, issue_number) ==
    \E i \in DOMAIN its : /\ its[i].issue_number = issue_number
                          /\ its[i].repository = repository

AllInProgress == \A i \in DOMAIN items : items[i].status = "in_progress"

\* C1 -- No double-dequeue: a get_next_work call hands out an item only if
\* that item was Pending and unassigned when the call ran, the item is then
\* InProgress and assigned to the caller, no other item changes, and as long as
\* a Pending item exists the caller gets one (so M callers on N >= M Pending
\* items receive M distinct items).
C1_NoDoubleDequeue ==
    [][ \A w \in Workers : GetNextWork(w) =>
          LET n == ret'.val IN
          /\ (pending_count(items) >= 1) => n # NoneInt
          /\ (n # NoneInt) =>
               /\ has_issue(items, n)
               /\ Get(items, n).status = "pending"
               /\ Get(items, n).assigned_to = None
               /\ Get(items', n).status = "in_progress"
               /\ Get(items', n).assigned_to = w
               /\ \A m \in Keys(items) \ {n} : Get(items', m) = Get(items, m)
               /\ pending_count(items') = pending_count(items) - 1
               /\ in_progress_count(items') = in_progress_count(items) + 1
      ]_vars

\* two callers were served from two Pending items: two distinct items are
\* InProgress, each assigned to a different worker
C1_Witness ==
    /\ ret.op = "get_next_work"
    /\ Len(items) = 2
    /\ AllInProgress
    /\ items[1].assigned_to # items[2].assigned_to

\* C2 -- FIFO assignment: get_next_work returns the earliest-inserted item that
\* is Pending at the time of the call, and returns None, changing nothing,
\* exactly when no item is Pending.
C2_FifoAssignment ==
    [][ \A w \in Workers : GetNextWork(w) =>
          IF \E i \in DOMAIN items : items[i].status = "pending"
          THEN \E i \in DOMAIN items :
                 /\ items[i].status = "pending"
                 /\ \A j \in 1..(i - 1) : items[j].status # "pending"
                 /\ ret'.val = items[i].issue_number
                 /\ ret'.val # NoneInt
                 /\ items'[i].status = "in_progress"
          ELSE /\ ret'.val = NoneInt
               /\ items' = items
      ]_vars

\* A, B, C were inserted and handed out one after the other, C last
C2_Witness ==
    /\ ret.op = "get_next_work"
    /\ Len(items) = 3
    /\ AllInProgress
    /\ \A i \in DOMAIN items : items[i].retry_count = 0
    /\ ret.val = items[3].issue_number

\* C3 -- Idempotent ingestion: of the add_work_item calls for one
\* (repository, issue number), the first returns True and creates the item with
\* its title, body and labels, every later one returns False and changes
\* nothing, and afterwards the queue holds exactly one item for that key.
C3_IdempotentIngestion ==
    [][ \A u \in Upstream : AddWorkItem(u.number, u, u.repository) =>
          /\ HasKey(items, u.repository, u.number) =>
               /\ ret'.val = FALSE
               /\ items' = items
          /\ ~HasKey(items, u.repository, u.number) =>
               /\ ret'.val = TRUE
               /\ Get(items', u.number).title = u.title
               /\ Get(items', u.number).body = u.body
               /\ Get(items', u.number).labels = u.labels
          /\ Cardinality({ i \in DOMAIN items' :
                             /\ items'[i].issue_number = u.number
                             /\ items'[i].repository = u.repository }) = 1
      ]_vars

\* C4 -- WorkItems are keyed by (repository, issue number): add_work_item
\* returns False only when an item with the same repository and the same issue
\* number is already queued.
C4_KeyedByRepositoryAndNumber ==
    [][ \A u \in Upstream :
          (AddWorkItem(u.number, u, u.repository) /\ ret'.val = FALSE)
            => HasKey(items, u.repository, u.number)
      ]_vars

\* C5 -- Ownership enforcement: mark_complete, mark_failed and release_work
\* called for an issue that is not queued, or by a worker other than the
\* item's assigned_to, return False and leave the queue unchanged.
C5_OwnershipEnforcement ==
    [][ \A n \in IssueNumbers, w \in Workers :
          (~has_issue(items, n) \/ Get(items, n).assigned_to # w) =>
             /\ (\/ \E u \in PrUrls : MarkComplete(n, w, TRUE, u, None)
                 \/ \E e \in Errors : MarkComplete(n, w, FALSE, None, e)
                 \/ \E e \in Errors : MarkFailed(n, w, e)
                 \/ ReleaseWork(n, w))
                => (ret'.val = FALSE /\ items' = items)
      ]_vars

\* both issues are queued and assigned, and a report was just rejected
C5_Witness ==
    /\ ret.op \in {"mark_complete", "mark_failed", "release_work"}
    /\ ret.val = FALSE
    /\ Len(items) = 2
    /\ AllInProgress

\* C6 -- Retry then terminal: the (MAX_RETRIES - 1)-th successful mark_failed
\* leaves the item Pending, unassigned and dequeueable by any worker; the
\* MAX_RETRIES-th makes it Failed with retry_count = MAX_RETRIES.
C6_RetryThenTerminal ==
    [][ \A n \in IssueNumbers, w \in Workers, e \in Errors :
          (MarkFailed(n, w, e) /\ ret'.val = TRUE) =>
             LET old == Get(items, n)
                 new == Get(items', n)
             IN /\ new.retry_count = old.retry_count + 1
                /\ (new.retry_count = MAX_RETRIES - 1) =>
                      /\ new.status = "pending"
                      /\ new.assigned_to = None
                      /\ new.assigned_at = NoneInt
                      /\ \A w2 \in Workers : get_next_work(<<new>>, w2)[2] = n
                /\ (new.retry_count = MAX_RETRIES) => new.status = "failed"
      ]_vars

\* one item has failed once and waits for a retry, the other has failed twice
C6_Witness ==
    /\ ret = [op |-> "mark_failed", val |-> TRUE]
    /\ \E i \in DOMAIN items : /\ items[i].status = "pending"
                               /\ items[i].retry_count = MAX_RETRIES - 1
    /\ \E i \in DOMAIN items : /\ items[i].status = "failed"
                               /\ items[i].retry_count = MAX_RETRIES

\* C7 -- mark_complete with success = False by the owner applies the retry
\* policy of mark_failed: retry_count is incremented, the item goes back to
\* Pending while retry_count < MAX_RETRIES and is Failed only from MAX_RETRIES.
C7_CompleteFailureUsesRetryPolicy ==
    [][ \A n \in IssueNumbers, w \in Workers, e \in Errors :
          (MarkComplete(n, w, FALSE, None, e) /\ ret'.val = TRUE) =>
             LET old == Get(items, n)
                 new == Get(items', n)
             IN /\ new.retry_count = old.retry_count + 1
                /\ (new.retry_count < MAX_RETRIES) =>
                      (new.status = "pending" /\ new.assigned_to = None)
                /\ (new.status = "failed") => new.retry_count >= MAX_RETRIES
      ]_vars

\* C8 -- Every InProgress item has an assigned_to and an assigned_at.
C8_InProgressIsAssigned ==
    \A i \in DOMAIN items :
        items[i].status = "in_progress" =>
            (items[i].assigned_to # None /\ items[i].assigned_at # NoneInt)

\* an item that was released for a retry has been handed out again
C8_Witness ==
    \E i \in DOMAIN items : /\ items[i].status = "in_progress"
                            /\ items[i].retry_count = 1

\* C9 -- Failed is terminal: an item that is Failed with its retries exhausted
\* is never moved to another status by any request.
C9_FailedIsTerminal ==
    [][ \A i \in DOMAIN items :
          (items[i].status = "failed" /\ items[i].retry_count >= MAX_RETRIES) =>
             (has_issue(items', items[i].issue_number) =>
                Get(items', items[i].issue_number).status = "failed")
      ]_vars

Scopes == {None} \cup Repositories

\* the Pending PRs of a scope
PendingInScope(pend, scope) ==
    IF scope = None THEN DOMAIN pend
    ELSE { n \in DOMAIN pend : pend[n].repository = scope }

AddPendingPrStep ==
    \E n \in PrIssues, u \in PrUrls, repo \in Repositories, w \in Workers :
        AddPendingPr(n, u, repo, w, {})

\* C11 -- should_block_queue(repository) is true if and only if
\* (block_on_changes_requested and some PR has changes requested) or the number
\* of Pending PRs in scope is >= max_pending_prs, the scope being the Pending
\* PRs of the repository when one is given and all Pending PRs otherwise.
C11_ShouldBlockQueueIff ==
    \A scope \in Scopes :
        should_block_queue(pending_prs, changes_requested_prs, scope)
          <=> \/ block_on_changes_requested /\ changes_requested_prs # {}
              \/ Cardinality(PendingInScope(pending_prs, scope)) >= max_pending_prs

\* no changes requested, two PRs pending in org/a and none in org/b with a
\* limit of two: org/a and the global scope block, org/b does not
C11_Witness ==
    /\ ret.op = "add_pending_pr"
    /\ changes_requested_prs = {}
    /\ max_pending_prs = 2
    /\ Cardinality(PendingInScope(pending_prs, "org/a")) = 2
    /\ should_block_queue(pending_prs, changes_requested_prs, "org/a")
    /\ ~should_block_queue(pending_prs, changes_requested_prs, "org/b")

\* C12 -- Backpressure threshold: with no changes-requested PR,
\* should_block_queue is false while fewer than max_pending_prs PRs are Pending
\* in the scope, true right after the add_pending_pr that makes them
\* max_pending_prs, and false again right after mark_approved or mark_merged
\* resolves one of those.
C12_BackpressureThreshold ==
    [][ \A scope \in Scopes :
          (changes_requested_prs = {} /\ changes_requested_prs' = {}) =>
            LET cnt  == Cardinality(PendingInScope(pending_prs, scope))
                cnt2 == Cardinality(PendingInScope(pending_prs', scope))
            IN /\ (cnt < max_pending_prs) =>
                     ~should_block_queue(pending_prs, changes_requested_prs, scope)
               /\ (AddPendingPrStep /\ cnt = max_pending_prs - 1
                                     /\ cnt2 = max_pending_prs) =>
                     should_block_queue(pending_prs', changes_requested_prs', scope)
               /\ \A n \in PendingInScope(pending_prs, scope) :
                     ((MarkApproved(n) \/ MarkMerged(n)) /\ cnt = max_pending_prs) =>
                        ~should_block_queue(pending_prs', changes_requested_prs', scope)
      ]_vars

\* two PRs were pending with a limit of two and one has just been approved:
\* one is left and the queue is open again
C12_Witness ==
    /\ ret.op = "mark_approved"
    /\ ret.val \in approved_prs
    /\ ret.val \notin DOMAIN pending_prs
    /\ changes_requested_prs = {}
    /\ max_pending_prs = 2
    /\ Cardinality(DOMAIN pending_prs) = 1
    /\ ~should_block_queue(pending_prs, changes_requested_prs, None)

\* C13 -- Changes-requested veto: with block_on_changes_requested,
\* mark_changes_requested(i) on a Pending PR puts i in changes_requested_prs
\* and should_block_queue is true for every scope, also with no Pending PR,
\* as long as i is in that set; mark_merged(i) takes i out of it, and the
\* queue is open again when no other condition blocks.
C13_ChangesRequestedVeto ==
    [][ block_on_changes_requested =>
          \A i \in PrIssues :
            /\ (MarkChangesRequested(i) /\ i \in DOMAIN pending_prs) =>
                   i \in changes_requested_prs'
            /\ (i \in changes_requested_prs') =>
                   \A scope \in Scopes :
                      should_block_queue(pending_prs', changes_requested_prs', scope)
            /\ (MarkMerged(i) /\ i \in changes_requested_prs) =>
                   /\ i \notin changes_requested_prs'
                   /\ \A scope \in Scopes :
                        (/\ changes_requested_prs' = {}
                         /\ Cardinality(PendingInScope(pending_prs', scope))
                              < max_pending_prs)
                        => ~should_block_queue(pending_prs', changes_requested_prs', scope)
      ]_vars

\* changes were just requested on the only tracked PR: nothing is Pending and
\* the queue is blocked
C13_Witness ==
    /\ ret.op = "mark_changes_requested"
    /\ block_on_changes_requested
    /\ changes_requested_prs = {ret.val}
    /\ DOMAIN pending_prs = {}
    /\ should_block_queue(pending_prs, changes_requested_prs, None)

\* C14 -- Resubmission: add_pending_pr for an issue that is in
\* changes_requested_prs moves it back to Pending: afterwards it is Pending and
\* no longer in changes_requested_prs, and if it was the only changes-requested
\* issue and fewer than max_pending_prs PRs are Pending, should_block_queue is
\* false.
C14_ResubmissionClearsChanges ==
    [][ \A n \in PrIssues, u \in PrUrls, repo \in Repositories, w \in Workers :
          (AddPendingPr(n, u, repo, w, {}) /\ n \in changes_requested_prs) =>
             /\ n \in DOMAIN pending_prs'
             /\ n \notin changes_requested_prs'
             /\ (/\ changes_requested_prs = {n}
                 /\ Cardinality(DOMAIN pending_prs') < max_pending_prs)
                => ~should_block_queue(pending_prs', changes_requested_prs', None)
      ]_vars

\* C15 -- The three tracking sets are pairwise disjoint: no issue number is at
\* the same time in two of Pending, Approved and ChangesRequested.
C15_TrackingSetsDisjoint ==
    /\ DOMAIN pending_prs \cap approved_prs = {}
    /\ DOMAIN pending_prs \cap changes_requested_prs = {}
    /\ approved_prs \cap changes_requested_prs = {}

\* C16 -- max_pending_prs is a ceiling: in every reachable state of the
\* service the number of Pending PRs is at most max_pending_prs.
C16_PendingCeiling ==
    Cardinality(DOMAIN pending_prs) <= max_pending_prs

\* C17 -- /work/next checks backpressure before dequeuing: when
\* should_block_queue() is true at the request, the response is blocked with a
\* reason and no item, the queue is unchanged, and nothing changes but the
\* caller's liveness record.
C17_BlockedBeforeDequeue ==
    [][ \A w \in Workers :
          (RequestWork(w) /\ should_block_queue(pending_prs, changes_requested_prs, None)) =>
             /\ ret'.op = "/work/next"
             /\ ret'.work_available = FALSE
             /\ ret'.blocked = TRUE
             /\ ret'.reason[1] # None
             /\ "issue_number" \notin DOMAIN ret'
             /\ items' = items
             /\ UNCHANGED <<clock, prVars, inflight, poll, fetch_failed, poll_seen>>
             /\ DOMAIN workers' = DOMAIN workers \cup {w}
             /\ \A w2 \in DOMAIN workers \ {w} : workers'[w2] = workers[w2]
      ]_vars

\* a request was answered "blocked" because of the number of pending PRs while
\* an item was waiting in the queue
C17_Witness ==
    /\ ret.op = "/work/next"
    /\ ~ret.work_available
    /\ ret.blocked
    /\ changes_requested_prs = {}
    /\ \E i \in DOMAIN items : items[i].status = "pending"

\* C18 -- /work/next unblocks after a merge: when exactly max_pending_prs PRs
\* are Pending and no PR has changes requested, pr-merged for one of them
\* leaves the queue unblocked, and a request made while the queue is not
\* blocked is not answered "blocked" and hands out the earliest Pending item
\* if there is one.
C18_UnblocksAfterMerge ==
    [][ /\ \A n \in IssueNumbers :
             (/\ PrMerged(n)
              /\ changes_requested_prs = {}
              /\ n \in DOMAIN pending_prs
              /\ Cardinality(DOMAIN pending_prs) = max_pending_prs)
             => ~should_block_queue(pending_prs', changes_requested_prs', None)
        /\ \A w \in Workers :
             (/\ RequestWork(w)
              /\ changes_requested_prs = {}
              /\ Cardinality(DOMAIN pending_prs) < max_pending_prs)
             => IF \E i \in DOMAIN items : items[i].status = "pending"
                THEN \E i \in DOMAIN items :
                       /\ items[i].status = "pending"
                       /\ \A j \in 1..(i - 1) : items[j].status # "pending"
                       /\ ret'.work_available = TRUE
                       /\ ret'.issue_number = items[i].issue_number
                       /\ items'[i].status = "in_progress"
                       /\ items'[i].assigned_to = w
                ELSE ret' = [op |-> "/work/next", work_available |-> FALSE,
                             blocked |-> FALSE]
      ]_vars

\* with a limit of one: an item was completed, its PR registered and then
\* merged, and the following request was handed the next item
C18_Witness ==
    /\ max_pending_prs = 1
    /\ ret.op = "/work/next"
    /\ ret.work_available
    /\ inflight = {}
    /\ DOMAIN pending_prs = {}
    /\ approved_prs = {}
    /\ changes_requested_prs = {}
    /\ \E i \in DOMAIN items : items[i].status = "completed"
    /\ Get(items, ret.issue_number).status = "in_progress"

\* C19 -- /work/complete with success from the worker that owns an InProgress
\* item makes the item Completed with the reported pr_url and registers one
\* Pending PR for the issue with the item's repository and the worker's id;
\* with success = false no PR is registered.
C19_CompleteRegistersPr ==
    [][ /\ \A w \in Workers, n \in IssueNumbers, u \in PrUrls :
             (/\ ReportComplete(w, n, u, TRUE, None)
              /\ has_issue(items, n)
              /\ Get(items, n).status = "in_progress"
              /\ Get(items, n).assigned_to = w)
             => /\ Get(items', n).status = "completed"
                /\ Get(items', n).pr_url = u
                /\ inflight' = inflight \cup
                      {[issue_number |-> n, pr_url |-> u,
                        repository |-> Get(items, n).repository, worker_id |-> w]}
        /\ \A h \in inflight :
             FinishComplete(h)
             => /\ DOMAIN pending_prs' = DOMAIN pending_prs \cup {h.issue_number}
                /\ pending_prs'[h.issue_number].pr_url = h.pr_url
                /\ pending_prs'[h.issue_number].repository = h.repository
                /\ pending_prs'[h.issue_number].worker_id = h.worker_id
                /\ \A m \in DOMAIN pending_prs \ {h.issue_number} :
                      pending_prs'[m] = pending_prs[m]
        /\ \A w \in Workers, n \in IssueNumbers, u \in PrUrls, e \in Errors :
             ReportComplete(w, n, u, FALSE, e) => UNCHANGED <<prVars, inflight>>
      ]_vars

\* the owner's report was answered: the item is Completed and its PR is
\* Pending with the item's repository, pr_url and worker
C19_Witness ==
    /\ ret = [op |-> "/work/complete", status |-> "acknowledged"]
    /\ inflight = {}
    /\ \E n \in DOMAIN pending_prs :
          /\ has_issue(items, n)
          /\ Get(items, n).status = "completed"
          /\ Get(items, n).pr_url = pending_prs[n].pr_url
          /\ Get(items, n).repository = pending_prs[n].repository
          /\ Get(items, n).assigned_to = pending_prs[n].worker_id

\* C20 -- Rejected reports are visible to the caller: a /work/complete or
\* /work/failed report for an issue that is not queued, or from a worker that
\* does not hold the item, is answered with something else than the
\* acknowledgement of an accepted report.
C20_RejectedReportVisible ==
    [][ \A w \in Workers, n \in IssueNumbers, e \in Errors :
          (~has_issue(items, n) \/ Get(items, n).assigned_to # w) =>
             /\ ReportFailed(w, n, e) => ret'.status # "acknowledged"
             /\ (\E u \in PrUrls : ReportComplete(w, n, u, FALSE, e))
                  => ret'.status # "acknowledged"
      ]_vars

C22_DependenciesMerged ==
    [][ \A n \in DepIssues, deps \in SUBSET DepIssues :
          (CanWorkOnIssue(n, deps) /\ allow_parallel_independent /\ ret'.val = TRUE) =>
             deps \cap (DOMAIN pending_prs \cup changes_requested_prs \cup approved_prs) = {}
      ]_vars

\* C23 -- mark_merged(i) removes i from pending_prs, approved_prs,
\* changes_requested_prs and the dependency graph, whatever it was in, changes
\* nothing for an untracked issue, and leaves every other issue as it was.
C23_MarkMergedFrame ==
    [][ \A i \in DepIssues :
          MarkMerged(i) =>
            /\ i \notin DOMAIN pending_prs'
            /\ i \notin approved_prs'
            /\ i \notin changes_requested_prs'
            /\ i \notin DOMAIN dependency_graph'
            /\ \A j \in DepIssues \ {i} :
                 /\ (j \in DOMAIN pending_prs') = (j \in DOMAIN pending_prs)
                 /\ (j \in DOMAIN pending_prs) => pending_prs'[j] = pending_prs[j]
                 /\ (j \in approved_prs') = (j \in approved_prs)
                 /\ (j \in changes_requested_prs') = (j \in changes_requested_prs)
                 /\ (j \in DOMAIN dependency_graph') = (j \in DOMAIN dependency_graph)
                 /\ (j \in DOMAIN dependency_graph) =>
                        dependency_graph'[j] = dependency_graph[j]
            /\ (/\ i \notin DOMAIN pending_prs
                /\ i \notin approved_prs
                /\ i \notin changes_requested_prs
                /\ i \notin DOMAIN dependency_graph)
               => UNCHANGED <<pending_prs, approved_prs, changes_requested_prs,
                              dependency_graph>>
      ]_vars

\* issue 1 was merged and is gone from every set while issue 2, which was
\* registered as depending on it, is still Pending and in the graph
C23_Witness ==
    /\ ret = [op |-> "mark_merged", val |-> 1]
    /\ DOMAIN pending_prs = {2}
    /\ DOMAIN dependency_graph = {2}
    /\ dependency_graph[2] = {1}

\* the registered workers last seen longer ago than the timeout / within it
Expired(ws) == { w \in DOMAIN ws : now - ws[w].last_seen > timeout }
Fresh(ws) == { w \in DOMAIN ws : now - ws[w].last_seen < timeout }

\* C24 -- Liveness expiry: a worker whose last_seen is older than the timeout
\* is not in get_active_workers() and not counted by
\* get_available_worker_count(), although nothing deregisters it and it stays
\* in the registry; a worker seen within the timeout is active, and counted
\* available iff its current_task is None.
C24_LivenessExpiry ==
    /\ Expired(workers) \cap DOMAIN get_active_workers(workers) = {}
    /\ Fresh(workers) \subseteq DOMAIN get_active_workers(workers)
    /\ get_worker_count(workers) <= Cardinality(DOMAIN workers \ Expired(workers))
    /\ get_available_worker_count(workers) <=
          Cardinality({ w \in DOMAIN workers \ Expired(workers) :
                          workers[w].current_task = NoneInt })
    /\ get_available_worker_count(workers) >=
          Cardinality({ w \in Fresh(workers) : workers[w].current_task = NoneInt })
    /\ \A h \in handed : h[1] \in DOMAIN workers

\* one registered worker has expired and is no longer counted, the other one
\* is active and busy
C24_Witness ==
    /\ ret.op = "/health"
    /\ Cardinality(DOMAIN workers) = 2
    /\ Cardinality(Expired(workers)) = 1
    /\ ret.total = 1
    /\ ret.available = 0

\* C25 -- total_tasks of a tracked worker equals the number of distinct tasks
\* ever handed to that worker: being handed the same issue again, or asking
\* again without getting work, does not increase it.
C25_TotalTasksDistinct ==
    \A w \in DOMAIN workers :
        workers[w].total_tasks = Cardinality({ h \in handed : h[1] = w })

\* a step of the polling task
PollerStep ==
    \/ \E answers \in FetchInputs : PollFetch(answers)
    \/ \E label_ok \in BOOLEAN : PollStep(label_ok)

\* every issue of q the step has looked at that was not tracked for its
\* repository is tracked for it afterwards
Ingested(q) ==
    \A j \in 1..(Len(q) - Len(poll')) :
        ~HasKey(items, q[j].repository, q[j].number)
            => HasKey(items', q[j].repository, q[j].number)

\* C26 -- Poll cycles are idempotent for tracked issues: a step of the poller
\* leaves every item of the queue as it is, in whatever status, and adds at
\* most one item, for an issue that was not in the queue, whatever title and
\* labels the fetched issue carries and whatever the relabel returned.
C26_PollIdempotent ==
    [][ PollerStep =>
          /\ Len(items') \in {Len(items), Len(items) + 1}
          /\ \A i \in DOMAIN items : items'[i] = items[i]
          /\ Len(items') = Len(items) + 1 =>
                ~HasKey(items, items'[Len(items')].repository,
                        items'[Len(items')].issue_number)
      ]_vars

\* the poller has just skipped issue 1 of org/a, fetched again with a new
\* title and more labels, while its item was completed; the item is as it was
C26_Witness ==
    /\ \E s \in poll_seen : /\ s[1].repository = "org/a"
                            /\ s[1].number = 1
                            /\ s[1].title = "t2"
                            /\ s[2] = "completed"
    /\ Len(items) >= 1
    /\ items[1].issue_number = 1
    /\ items[1].repository = "org/a"
    /\ items[1].title = "t1"
    /\ items[1].status = "completed"

\* C27 -- Poller failure isolation: when the fetch of one repository fails,
\* the cycle still holds the issues of the repositories whose fetch succeeded
\* and ingests their new issues, and the new issues of a repository whose
\* fetch had failed are ingested by the later cycle that fetches them.
C27_PollerIsolation ==
    [][ /\ \A answers \in FetchInputs :
             PollFetch(answers) =>
               LET q == fetch_all_issues(answers) IN
               /\ \A repo \in Repositories :
                    answers[repo].ok =>
                      \A j \in DOMAIN answers[repo].issues :
                         \E k \in DOMAIN q :
                            /\ q[k].repository = repo
                            /\ q[k].number = answers[repo].issues[j].number
               /\ fetch_failed' # {} => Ingested(q)
        /\ \A label_ok \in BOOLEAN :
             PollStep(label_ok) => (fetch_failed # {} => Ingested(poll))
      ]_vars

\* C28 -- Multi-repository ingestion is uniform: every fetched issue that is
\* not yet tracked for its repository becomes a WorkItem in the poll cycle
\* that fetches it, even when another repository has a tracked issue with the
\* same number.
C28_UniformIngestion ==
    [][ /\ \A answers \in FetchInputs :
             PollFetch(answers) => Ingested(fetch_all_issues(answers))
        /\ \A label_ok \in BOOLEAN : PollStep(label_ok) => Ingested(poll)
      ]_vars

\* the queue is closed to /work/next
QueueBlocked == should_block_queue(pending_prs, changes_requested_prs, None)

PendingItem(n) == has_issue(items, n) /\ Get(items, n).status = "pending"

AssignedItem(n) == has_issue(items, n) /\ Get(items, n).assigned_to # None

\* C29 -- No starvation: when the workers keep asking for work and the queue
\* is not blocked forever, every Pending item is eventually assigned; and a
\* request never hands out an item while an item inserted before it is
\* Pending.
C29_NoStarvation ==
    /\ ([]<>(~QueueBlocked)) =>
          \A n \in IssueNumbers : PendingItem(n) ~> AssignedItem(n)
    /\ [][ HandOut =>
             \E i \in DOMAIN items :
                /\ items[i].status = "pending"
                /\ items'[i].status = "in_progress"
                /\ \A j \in 1..(i - 1) : items[j].status # "pending"
         ]_vars

\* issue 2 has just been handed out, after the PR of issue 1 had filled the
\* tracker up to max_pending_prs = 1 and was approved
C29_Witness ==
    /\ max_pending_prs = 1
    /\ ret.op = "/work/next"
    /\ ret.work_available
    /\ ret.issue_number = 2
    /\ Len(items) = 2
    /\ items[1].status = "completed"
    /\ items[2].status = "in_progress"
    /\ approved_prs = {1}

\* C30 -- No reaper: an InProgress item changes only through a completion or
\* failure report (or a release) of its assigned worker; requests of any
\* worker for work, reports of other workers, poll cycles, reviewer signals,
\* health queries and the passing of time leave it InProgress and assigned to
\* the same worker.
C30_NoReaper ==
    [][ \A i \in DOMAIN items :
          items[i].status = "in_progress" =>
            LET n == items[i].issue_number
                w == items[i].assigned_to
            IN \/ /\ has_issue(items', n)
                  /\ Get(items', n) = items[i]
               \/ \E u \in PrUrls, e \in Errors : ReportComplete(w, n, u, FALSE, e)
               \/ \E u \in PrUrls : ReportComplete(w, n, u, TRUE, None)
               \/ \E e \in Errors : ReportFailed(w, n, e)
      ]_vars

\* the worker holding the item has expired from the liveness tracker and the
\* item is still InProgress and assigned to it
C30_Witness ==
    \E i \in DOMAIN items :
        /\ items[i].status = "in_progress"
        /\ items[i].assigned_to \in Expired(workers)
        /\ ret.op = "/health"
        /\ ret.in_progress = 1

\* C31 -- Duplicate completion reports are harmless: a second /work/complete
\* for an issue by the worker that completed it, arriving after the first was
\* accepted and its PR was registered (and possibly approved or sent back),
\* leaves the WorkQueue and the PRReviewTracker as they were.
C31_DuplicateCompleteHarmless ==
    [][ /\ \A w \in Workers, n \in IssueNumbers, u \in PrUrls :
             (/\ ReportComplete(w, n, u, TRUE, None)
              /\ has_issue(items, n)
              /\ Get(items, n).status = "completed"
              /\ Get(items, n).assigned_to = w)
             => items' = items
        /\ \A h \in inflight :
             (/\ FinishComplete(h)
              /\ h.issue_number \in (DOMAIN pending_prs) \cup approved_prs
                                       \cup changes_requested_prs)
             => UNCHANGED <<items, pending_prs, approved_prs,
                            changes_requested_prs, dependency_graph>>
      ]_vars

OtherPendingSame(n) ==
    \A j \in PrIssues \ {n} :
        /\ (j \in DOMAIN pending_prs') = (j \in DOMAIN pending_prs)
        /\ (j \in DOMAIN pending_prs) => pending_prs'[j] = pending_prs[j]

\* C33 -- mark_approved(i) and mark_changes_requested(i) act only on an issue
\* that is Pending: they take it out of Pending and put it into Approved
\* respectively ChangesRequested, touching nothing else; for an issue that is
\* not Pending (untracked, Approved or ChangesRequested) the whole tracker
\* stays as it is.
C33_ReviewSignalsOnlyOnPending ==
    [][ \A n \in PrIssues :
          /\ MarkApproved(n) =>
               IF n \in DOMAIN pending_prs
               THEN /\ n \notin DOMAIN pending_prs'
                    /\ OtherPendingSame(n)
                    /\ approved_prs' = approved_prs \cup {n}
                    /\ UNCHANGED <<changes_requested_prs, dependency_graph>>
               ELSE UNCHANGED <<pending_prs, approved_prs, changes_requested_prs,
                                dependency_graph>>
          /\ MarkChangesRequested(n) =>
               IF n \in DOMAIN pending_prs
               THEN /\ n \notin DOMAIN pending_prs'
                    /\ OtherPendingSame(n)
                    /\ changes_requested_prs' = changes_requested_prs \cup {n}
                    /\ UNCHANGED <<approved_prs, dependency_graph>>
               ELSE UNCHANGED <<pending_prs, approved_prs, changes_requested_prs,
                                dependency_graph>>
      ]_vars

\* mark_changes_requested(1) was called for the approved, not resubmitted
\* issue 1 and it is still Approved only
C33_Witness ==
    /\ ret = [op |-> "mark_changes_requested", val |-> 1]
    /\ 1 \in approved_prs
    /\ 1 \notin changes_requested_prs
    /\ 1 \notin DOMAIN pending_prs

\* the active workers other than w that have no current task
OtherIdle(ws, w) ==
    { v \in DOMAIN get_active_workers(ws) \ {w} : ws[v].current_task = NoneInt }

C35_QueriesReadOnly ==
    [][ (Health \/ ListWorkers \/ QueueStatus \/ PrReviewStatus) =>
           UNCHANGED <<items, workers, pending_prs, changes_requested_prs,
                       approved_prs, dependency_graph, cfgVars>>
      ]_vars

\* /health has answered while a worker that is still registered had expired
\* and an item was in progress
C35_Witness ==
    /\ ret.op = "/health"
    /\ ret.total = 0
    /\ ret.in_progress = 1
    /\ DOMAIN workers = {"w1"}
    /\ Expired(workers) = {"w1"}

\* C36 -- A completion report of a worker that does not hold the item, which
\* mark_complete rejects, changes nothing in the PRReviewTracker: when its
\* handler finishes, no Pending PR is registered or overwritten.
C36_RejectedReportNoPr ==
    [][ \A h \in inflight :
          (/\ FinishComplete(h)
           /\ ~(/\ has_issue(items, h.issue_number)
                /\ Get(items, h.issue_number).assigned_to = h.worker_id))
          => UNCHANGED <<pending_prs, approved_prs, changes_requested_prs,
                         dependency_graph>>
      ]_vars

\* C37 -- Completed is terminal: once an item is Completed, no later
\* mark_complete, mark_failed or get_next_work call by any worker changes its
\* status, pr_url or retry_count, and it is never handed out again.
C37_CompletedIsTerminal ==
    [][ \A i \in DOMAIN items :
          (items[i].status = "completed" /\ has_issue(items', items[i].issue_number)) =>
             LET new == Get(items', items[i].issue_number) IN
             /\ new.status = "completed"
             /\ new.pr_url = items[i].pr_url
             /\ new.retry_count = items[i].retry_count
             /\ ~(ret'.op = "get_next_work" /\ ret'.val = items[i].issue_number)
      ]_vars

\* the error text mark_failed leaves on an item it fails for good
RetryPolicyErrors == { "Max retries exceeded. Last error: " \o e : e \in Errors }

\* C38 -- In every reachable state every item has 0 <= retry_count <=
\* MAX_RETRIES, and an item that is Failed through the retry policy has
\* retry_count = MAX_RETRIES.
C38_RetryCountBounded ==
    \A i \in DOMAIN items :
        /\ 0 <= items[i].retry_count
        /\ items[i].retry_count <= MAX_RETRIES
        /\ (items[i].status = "failed" /\ items[i].error \in RetryPolicyErrors)
              => items[i].retry_count = MAX_RETRIES

\* C39 -- get_blocking_reason agrees with should_block_queue for the same
\* scope and every configuration: it returns a reason if and only if
\* should_block_queue returns true, so get_status never reports
\* queue_blocked = false together with a blocking reason.
C39_ReasonIffBlocked ==
    \A scope \in Scopes :
        (get_blocking_reason(pending_prs, changes_requested_prs, scope)[1] # None)
          <=> should_block_queue(pending_prs, changes_requested_prs, scope)

\* C40 -- In every reachable state every Pending item has assigned_to = None
\* and assigned_at = None, so no worker passes the ownership check of
\* mark_complete, mark_failed or release_work on a Pending item.
C40_PendingIsUnassigned ==
    \A i \in DOMAIN items :
        items[i].status = "pending" =>
            /\ items[i].assigned_to = None
            /\ items[i].assigned_at = NoneInt
            /\ \A w \in Workers, e \in Errors, u \in PrUrls :
                  /\ mark_complete(items, items[i].issue_number, w, TRUE, u, None)[2] = FALSE
                  /\ mark_failed(items, items[i].issue_number, w, e)[2] = FALSE
                  /\ release_work(items, items[i].issue_number, w)[2] = FALSE

\* an item that a worker held was released for a retry and waits again
C40_Witness ==
    /\ ret = [op |-> "mark_failed", val |-> TRUE]
    /\ \E i \in DOMAIN items : /\ items[i].status = "pending"
                               /\ items[i].retry_count = 1
                               /\ items[i].error # None

====
